---------------------------- MODULE Spec2Model ----------------------------
(***************************************************************************)
(* Model of predict-retirement-insurance-contribs.ipynb: the notebook's    *)
(* cells as a linear state machine, and its three reusable routines        *)
(* (get_columns_to_drop, NegativeValueImputer / IQRClippingTransformer,    *)
(* bootstrap_CI_regression) as operators applied to bounded inputs.        *)
(*                                                                         *)
(* Numbers.  A float is modelled by an extended rational <<n, d>> in       *)
(* lowest terms with d >= 0: d > 0 is the finite value n/d, <<1, 0>> is    *)
(* +inf, <<-1, 0>> is -inf and <<0, 0>> is NaN.  Arithmetic follows IEEE   *)
(* 754 for the special values; finite results are exact (the rounding of   *)
(* float64 and signed zeros are not represented).                          *)
(***************************************************************************)
EXTENDS Integers, Sequences, FiniteSets, TLC

VARIABLES
    \* ---- the notebook run, cell by cell ---------------------------------
    pc,                 \* the next cell
    hs_csv,             \* ./data/HouseholdSpend.csv
    ds_csv,             \* ./data/DemoStats.csv
    hs,                 \* the spending frame
    ds,                 \* the demographics frame
    total_households,   \* the HSBASHHD column set aside
    data,               \* hs and ds side by side
    data_rows,          \* for each row of data, its row number in the csv files
    X,                  \* the feature matrix
    y,                  \* the target column
    X_proc_kmeans_sampled,  \* the clustering sample and the steps it went through
    fits,               \* every estimator fit so far: what was fitted, on what
    log,                \* the stages of the analysis in the order they ran
    \* ---- get_columns_to_drop applied to a metadata listing --------------
    meta_pc,            \* "call" | "done"
    metadata,           \* the rows of the metadata csv: [Variable, Level]
    meta_result,        \* the returned columns_to_drop (list(set(..)): a set)
    \* ---- the preprocessing transformers inside a fit / predict run ------
    tr_pc,              \* the next call the pipeline makes
    X_train,            \* the caller's matrix passed to fit
    X_test,             \* the caller's held-out matrix passed to predict
    medians,            \* NegativeValueImputer.medians (None: the empty map)
    upper_bounds_,      \* IQRClippingTransformer.upper_bounds_
    arg,                \* the matrix handed to the call made last
    Xt,                 \* what the call made last returned
    \* ---- bootstrap_CI_regression ----------------------------------------
    bs_pc,              \* "start" | "loop" | "done"
    y_test,             \* true target values
    y_pred,             \* predicted target values
    n_bs,               \* number of bootstrap iterations
    alpha,              \* significance level
    mse,                \* mean_squared_error(y_test, y_pred)
    r2,                 \* r2_score(y_test, y_pred)
    bs_mse,             \* the resampled MSEs computed so far
    bs_r2,              \* the resampled R squared computed so far
    mse_ci,             \* the returned (mse_ci_lower, mse_ci_upper)
    r2_ci               \* the returned (r2_ci_lower, r2_ci_upper)

nbVars == <<pc, hs_csv, ds_csv, hs, ds, total_households, data, data_rows, X, y,
            X_proc_kmeans_sampled, fits, log>>

metaVars == <<meta_pc, metadata, meta_result>>

trVars == <<tr_pc, X_train, X_test, medians, upper_bounds_, arg, Xt>>

bsVars == <<bs_pc, y_test, y_pred, n_bs, alpha, mse, r2, bs_mse, bs_r2, mse_ci, r2_ci>>

vars == <<nbVars, metaVars, trVars, bsVars>>

-----------------------------------------------------------------------------
(* Extended rationals *)

Abs(n) == IF n < 0 THEN -n ELSE n

Sgn(n) == IF n < 0 THEN -1 ELSE IF n > 0 THEN 1 ELSE 0

RECURSIVE GCD(_, _)
GCD(a, b) == IF b = 0 THEN a ELSE GCD(b, a % b)

\* n/d in lowest terms with a positive denominator (d # 0)
Norm(n, d) ==
    LET g == GCD(Abs(n), Abs(d))
    IN  <<Sgn(d) * (n \div g), Abs(d) \div g>>

Q(n) == <<n, 1>>

NaN == <<0, 0>>

Zero == <<0, 1>>

IsNaN(x) == x = NaN

\* x < w on floats: false when either side is NaN
FLt(x, w) ==
    IF IsNaN(x) \/ IsNaN(w) THEN FALSE
    ELSE IF x[2] = 0 /\ w[2] = 0 THEN x[1] < w[1]
    ELSE x[1] * w[2] < w[1] * x[2]

\* x <= w on floats: false when either side is NaN
FLe(x, w) == ~IsNaN(x) /\ ~IsNaN(w) /\ ~FLt(w, x)

FNeg(x) == <<-x[1], x[2]>>

FAdd(x, w) ==
    IF IsNaN(x) \/ IsNaN(w) THEN NaN
    ELSE IF x[2] = 0 /\ w[2] = 0 THEN (IF x[1] = w[1] THEN x ELSE NaN)
    ELSE IF x[2] = 0 THEN x
    ELSE IF w[2] = 0 THEN w
    ELSE Norm(x[1] * w[2] + w[1] * x[2], x[2] * w[2])

FSub(x, w) == FAdd(x, FNeg(w))

FMul(x, w) ==
    IF IsNaN(x) \/ IsNaN(w) THEN NaN
    ELSE IF x[2] = 0 \/ w[2] = 0
         THEN (IF x[1] = 0 \/ w[1] = 0 THEN NaN ELSE <<Sgn(x[1]) * Sgn(w[1]), 0>>)
    ELSE Norm(x[1] * w[1], x[2] * w[2])

\* x / w as the dataframe libraries divide float columns (true division):
\* 0/0 and inf/inf are NaN, a nonzero value over 0 is a signed infinity
FDiv(x, w) ==
    IF IsNaN(x) \/ IsNaN(w) THEN NaN
    ELSE IF w[2] = 0 THEN (IF x[2] = 0 THEN NaN ELSE Zero)
    ELSE IF w[1] = 0 THEN (IF x[1] = 0 THEN NaN ELSE <<Sgn(x[1]), 0>>)
    ELSE IF x[2] = 0 THEN <<x[1] * Sgn(w[1]), 0>>
    ELSE Norm(x[1] * w[2] * Sgn(w[1]), x[2] * Abs(w[1]))

-----------------------------------------------------------------------------
(* Sequence helpers *)

Range(s) == {s[i] : i \in 1..Len(s)}

RECURSIVE SeqSum(_)
SeqSum(s) == IF s = <<>> THEN Zero ELSE FAdd(s[1], SeqSum(Tail(s)))

\* the elements of s that satisfy Test, in order
SelectIdx(s, keep(_)) ==
    LET F[i \in 0..Len(s)] ==
            IF i = 0 THEN <<>>
            ELSE IF keep(i) THEN Append(F[i - 1], s[i]) ELSE F[i - 1]
    IN  F[Len(s)]

\* s in ascending order (insertion sort on floats without NaN)
RECURSIVE Insert(_, _)
Insert(s, x) ==
    IF s = <<>> THEN <<x>>
    ELSE IF FLe(x, s[1]) THEN <<x>> \o s
    ELSE <<s[1]>> \o Insert(Tail(s), x)

RECURSIVE Sorted(_)
Sorted(s) == IF s = <<>> THEN <<>> ELSE Insert(Sorted(Tail(s)), s[1])

-----------------------------------------------------------------------------
(* Idle values: what a specification leaves untouched *)

EmptyMap == <<>>

NoFrame == [kind |-> "none", columns |-> <<>>, col |-> EmptyMap]

NbIdle ==
    /\ pc = "idle"
    /\ hs_csv = NoFrame
    /\ ds_csv = NoFrame
    /\ hs = NoFrame
    /\ ds = NoFrame
    /\ total_households = <<>>
    /\ data = NoFrame
    /\ data_rows = <<>>
    /\ X = NoFrame
    /\ y = <<>>
    /\ X_proc_kmeans_sampled = <<>>
    /\ fits = <<>>
    /\ log = <<>>

MetaIdle ==
    /\ meta_pc = "idle"
    /\ metadata = <<>>
    /\ meta_result = {}

TrIdle ==
    /\ tr_pc = "idle"
    /\ X_train = NoFrame
    /\ X_test = NoFrame
    /\ medians = EmptyMap
    /\ upper_bounds_ = EmptyMap
    /\ arg = NoFrame
    /\ Xt = NoFrame

BsIdle ==
    /\ bs_pc = "idle"
    /\ y_test = <<>>
    /\ y_pred = <<>>
    /\ n_bs = 0
    /\ alpha = Zero
    /\ mse = Zero
    /\ r2 = Zero
    /\ bs_mse = <<>>
    /\ bs_r2 = <<>>
    /\ mse_ci = <<Zero, Zero>>
    /\ r2_ci = <<Zero, Zero>>

-----------------------------------------------------------------------------
(* get_columns_to_drop(metadata_file) *)

MaxVars == 4

\* variable names a listing may use: summary names, names that only contain
\* the suffixes elsewhere, plain names
VarNames == {"HSAVG", "PMED", "AVGHS", "HSTT", "ED", "MEDIAN"}

\* str.endswith
EndsWith(s, suffix) ==
    /\ Len(s) >= Len(suffix)
    /\ SubSeq(s, Len(s) - Len(suffix) + 1, Len(s)) = suffix

\* the loop of get_columns_to_drop; childStep is the level difference that
\* makes the next row a direct child
ScanMetadata(df, childStep) ==
    LET n == Len(df)
        IsSummary(i) == EndsWith(df[i].Variable, "AVG") \/ EndsWith(df[i].Variable, "MED")
        IsParent(i) == i < n /\ df[i + 1].Level = df[i].Level + childStep
        summary_variables == {df[i].Variable : i \in {j \in 1..n : IsSummary(j)}}
        non_leaf_variables ==
            {df[i].Variable : i \in {j \in 1..n : ~IsSummary(j) /\ IsParent(j)}}
    IN  non_leaf_variables \cup summary_variables

\* faulty variant: a row on the same level as the next one is taken for its parent
get_columns_to_drop_sibling(df) == ScanMetadata(df, 0)

get_columns_to_drop(df) == ScanMetadata(df, 1)

\* the Hierarchy Level columns of the pre-order listings with n rows: the
\* first row is a root (on level 0 or 1), each row is at most one level below
\* the row before it, no row is above the roots
RECURSIVE LevelSeqs(_)
LevelSeqs(n) ==
    IF n = 1 THEN {<<0>>, <<1>>}
    ELSE UNION { {Append(s, l) : l \in s[1]..(s[n - 1] + 1)} : s \in LevelSeqs(n - 1) }

\* the Variable columns with n rows: every variable is listed once
RECURSIVE NameSeqs(_)
NameSeqs(n) ==
    IF n = 0 THEN {<<>>}
    ELSE UNION { {Append(s, v) : v \in VarNames \ Range(s)} : s \in NameSeqs(n - 1) }

MetaStart ==
    /\ meta_pc = "call"
    /\ \E n \in 1..MaxVars :
          \E names \in NameSeqs(n), levels \in LevelSeqs(n) :
              metadata = [i \in 1..n |-> [Variable |-> names[i], Level |-> levels[i]]]
    /\ meta_result = {}

MetaInit == MetaStart /\ NbIdle /\ TrIdle /\ BsIdle

CallGetColumnsToDrop ==
    /\ meta_pc = "call"
    /\ meta_result' = get_columns_to_drop(metadata)
    /\ meta_pc' = "done"
    /\ UNCHANGED <<metadata, nbVars, trVars, bsVars>>

MetaNext == CallGetColumnsToDrop

SpecMeta == MetaInit /\ [][MetaNext]_vars

\* The hierarchy itself, read off the listing without looking at the next
\* row: the parent of row i is the closest earlier row one level up
ParentOf(df, i) ==
    LET cands == {j \in 1..(i - 1) : df[j].Level = df[i].Level - 1}
    IN  IF cands = {} THEN 0 ELSE CHOOSE j \in cands : \A k \in cands : k <= j

HasChild(df, j) == \E i \in 1..Len(df) : ParentOf(df, i) = j

IsSummaryName(v) == EndsWith(v, "AVG") \/ EndsWith(v, "MED")

\* C3: on a pre-order listing get_columns_to_drop returns exactly the
\* variables that have a child or whose name ends with AVG or MED: every
\* non-leaf variable is returned and no leaf without such a name is.
C3_ExactlyNonLeafOrSummary ==
    meta_pc = "done" =>
        /\ meta_result =
              {metadata[i].Variable :
                  i \in {j \in 1..Len(metadata) :
                            HasChild(metadata, j) \/ IsSummaryName(metadata[j].Variable)}}
        /\ \A i \in 1..Len(metadata) :
              /\ HasChild(metadata, i) => metadata[i].Variable \in meta_result
              /\ (~HasChild(metadata, i) /\ ~IsSummaryName(metadata[i].Variable))
                    => metadata[i].Variable \notin meta_result

\* a listing with a plain parent, a summary parent, a plain leaf that is kept
\* and a summary leaf, after the call
C3_Witness ==
    /\ meta_pc = "done"
    /\ \E i, j, k \in 1..Len(metadata) :
          /\ HasChild(metadata, i) /\ ~IsSummaryName(metadata[i].Variable)
          /\ ~HasChild(metadata, j) /\ ~IsSummaryName(metadata[j].Variable)
          /\ metadata[j].Variable \notin meta_result
          /\ ~HasChild(metadata, k) /\ IsSummaryName(metadata[k].Variable)
          /\ metadata[k].Variable \in meta_result

-----------------------------------------------------------------------------
(* NegativeValueImputer and IQRClippingTransformer, called as Pipeline.fit  *)
(* (fit_transform of each step on the training matrix) and then             *)
(* Pipeline.predict (transform of each step on the held-out matrix) call    *)
(* them.                                                                    *)
(*                                                                          *)
(* A matrix is [kind, columns, col]: a pandas DataFrame with named columns  *)
(* or a numpy array whose columns are the positions 0, 1, ..; col maps a    *)
(* column to the sequence of its values.                                    *)

TrainRows == 4

Multiplier == 3

\* the values a cell of the first and of the second column may hold
ValsA == {Q(-1), Q(2), Q(40)}

ValsB == {Q(-3), Q(1)}

\* the held-out rows: a negative value next to a small one, a large value
\* next to a negative one
TestRows == {<<Q(-1), Q(1)>>, <<Q(40), Q(-3)>>}

Height(Xin) == IF Xin.columns = <<>> THEN 0 ELSE Len(Xin.col[Xin.columns[1]])

\* Series.median / np.median: the middle value, or the mean of the two
\* middle values
Median(s) ==
    LET t == Sorted(s)
        n == Len(s)
    IN  IF n % 2 = 1 THEN t[(n + 1) \div 2]
        ELSE FDiv(FAdd(t[n \div 2], t[n \div 2 + 1]), Q(2))

\* faulty variant: the median of the whole column, negative values included
NegativeValueImputer_fit_all(Xin) ==
    [c \in Range(Xin.columns) |-> Median(Xin.col[c])]

\* NegativeValueImputer.fit: per column (by name for a DataFrame, by
\* position for an array) the median of the non-negative values, 0 if none
NegativeValueImputer_fit(Xin) ==
    [c \in Range(Xin.columns) |->
        LET v == Xin.col[c]
            non_negative_values == SelectIdx(v, LAMBDA i : FLe(Zero, v[i]))
        IN  IF Len(non_negative_values) > 0 THEN Median(non_negative_values) ELSE Zero]

\* faulty variant: transform works on the caller's matrix itself
NoCopy(Xin) == [shared |-> TRUE, frame |-> Xin]

\* Xin.copy(): a matrix of its own
Copy(Xin) == [shared |-> FALSE, frame |-> Xin]

\* the assignments of NegativeValueImputer.transform to X_copy
ImputeNegatives(X_copy, meds) ==
    [X_copy EXCEPT !.col =
        [c \in Range(X_copy.columns) |->
            [i \in 1..Len(X_copy.col[c]) |->
                IF FLt(X_copy.col[c][i], Zero) THEN meds[c] ELSE X_copy.col[c][i]]]]

\* pl.DataFrame(Xin): a new frame; the columns of an array are named column_<i>
PlDataFrame(Xin) ==
    IF Xin.kind = "ndarray"
    THEN LET name(c) == "column_" \o ToString(c)
         IN  [kind |-> "polars",
              columns |-> [p \in 1..Len(Xin.columns) |-> name(Xin.columns[p])],
              col |-> [n \in {name(c) : c \in Range(Xin.columns)} |->
                          Xin.col[CHOOSE c \in Range(Xin.columns) : name(c) = n]]]
    ELSE [Xin EXCEPT !.kind = "polars"]

\* df.to_numpy(): the columns by position
ToNumpy(df) ==
    [kind |-> "ndarray",
     columns |-> [p \in 1..Len(df.columns) |-> p - 1],
     col |-> [c \in 0..(Len(df.columns) - 1) |-> df.col[df.columns[c + 1]]]]

\* Series.quantile(q) with q = qn/qd, interpolation "nearest": the element of
\* the sorted column at index round((n - 1) * q), halves rounded up
Quantile(s, qn, qd) ==
    LET n == Len(s)
        idx == (2 * qn * (n - 1) + qd) \div (2 * qd)
    IN  Sorted(s)[idx + 1]

\* faulty variant: the bound is multiplier * iqr, without q3
IQRUpperBound_NoQ3(s, multiplier) ==
    LET q1 == Quantile(s, 1, 4)
        q3 == Quantile(s, 3, 4)
    IN  FMul(Q(multiplier), FSub(q3, q1))

\* the bound IQRClippingTransformer.fit stores for one column
IQRUpperBound(s, multiplier) ==
    LET q1 == Quantile(s, 1, 4)
        q3 == Quantile(s, 3, 4)
        iqr == FSub(q3, q1)
    IN  FAdd(q3, FMul(Q(multiplier), iqr))

\* IQRClippingTransformer.fit: the entries of the columns of Xin are set, the
\* other entries of upper_bounds_ stay
IQRClippingTransformer_fit(bounds, Xin, multiplier) ==
    LET df == PlDataFrame(Xin)
    IN  [c \in (DOMAIN bounds) \cup Range(df.columns) |->
            IF c \in Range(df.columns) THEN IQRUpperBound(df.col[c], multiplier)
            ELSE bounds[c]]

\* IQRClippingTransformer.transform
IQRClippingTransformer_transform(bounds, Xin) ==
    LET df == PlDataFrame(Xin)
        clipped ==
            [df EXCEPT !.col =
                [c \in Range(df.columns) |->
                    IF c \in DOMAIN bounds
                    THEN [i \in 1..Len(df.col[c]) |->
                            IF FLt(bounds[c], df.col[c][i]) THEN bounds[c]
                            ELSE df.col[c][i]]
                    ELSE df.col[c]]]
    IN  ToNumpy(clipped)

\* the two columns as a DataFrame or as an array
Matrix(kind, a, b) ==
    IF kind = "DataFrame"
    THEN [kind |-> kind, columns |-> <<"a", "b">>, col |-> [c \in {"a", "b"} |-> IF c = "a" THEN a ELSE b]]
    ELSE [kind |-> kind, columns |-> <<0, 1>>, col |-> [c \in {0, 1} |-> IF c = 0 THEN a ELSE b]]

TrStart ==
    /\ tr_pc = "impute.fit"
    /\ \E kind \in {"DataFrame", "ndarray"} :
         /\ \E a \in [1..TrainRows -> ValsA], b \in [1..TrainRows -> ValsB] :
               X_train = Matrix(kind, a, b)
         \* one held-out row
         /\ \E row \in TestRows :
               X_test = Matrix(kind, <<row[1]>>, <<row[2]>>)
    /\ medians = EmptyMap
    /\ upper_bounds_ = EmptyMap
    /\ arg = NoFrame
    /\ Xt = NoFrame

TrInit == TrStart /\ NbIdle /\ MetaIdle /\ BsIdle

\* Pipeline.fit, step 1: impute_negatives.fit(X_train)
ImputerFit ==
    /\ tr_pc = "impute.fit"
    /\ medians' = NegativeValueImputer_fit(X_train)
    /\ arg' = X_train
    /\ tr_pc' = "impute.transform"
    /\ UNCHANGED <<X_train, X_test, upper_bounds_, Xt>>
    /\ UNCHANGED <<nbVars, metaVars, bsVars>>

\* Pipeline.fit, step 1: impute_negatives.transform(X_train)
ImputerTransformTrain ==
    /\ tr_pc = "impute.transform"
    /\ LET X_copy == Copy(X_train)
           result == ImputeNegatives(X_copy.frame, medians)
       IN  /\ Xt' = result
           /\ X_train' = IF X_copy.shared THEN result ELSE X_train
    /\ arg' = X_train
    /\ tr_pc' = "clip.fit"
    /\ UNCHANGED <<X_test, medians, upper_bounds_>>
    /\ UNCHANGED <<nbVars, metaVars, bsVars>>

\* Pipeline.fit, step 2: clip_outliers.fit(Xt)
ClipFit ==
    /\ tr_pc = "clip.fit"
    /\ upper_bounds_' = IQRClippingTransformer_fit(upper_bounds_, Xt, Multiplier)
    /\ arg' = Xt
    /\ tr_pc' = "clip.transform"
    /\ UNCHANGED <<X_train, X_test, medians, Xt>>
    /\ UNCHANGED <<nbVars, metaVars, bsVars>>

\* Pipeline.fit, step 2: clip_outliers.transform(Xt)
ClipTransformTrain ==
    /\ tr_pc = "clip.transform"
    /\ Xt' = IQRClippingTransformer_transform(upper_bounds_, Xt)
    /\ arg' = Xt
    /\ tr_pc' = "fitted"
    /\ UNCHANGED <<X_train, X_test, medians, upper_bounds_>>
    /\ UNCHANGED <<nbVars, metaVars, bsVars>>

\* Pipeline.predict, step 1: impute_negatives.transform(X_test)
ImputerTransformTest ==
    /\ tr_pc = "fitted"
    /\ LET X_copy == Copy(X_test)
           result == ImputeNegatives(X_copy.frame, medians)
       IN  /\ Xt' = result
           /\ X_test' = IF X_copy.shared THEN result ELSE X_test
    /\ arg' = X_test
    /\ tr_pc' = "predict.clip"
    /\ UNCHANGED <<X_train, medians, upper_bounds_>>
    /\ UNCHANGED <<nbVars, metaVars, bsVars>>

\* Pipeline.predict, step 2: clip_outliers.transform(Xt)
ClipTransformTest ==
    /\ tr_pc = "predict.clip"
    /\ Xt' = IQRClippingTransformer_transform(upper_bounds_, Xt)
    /\ arg' = Xt
    /\ tr_pc' = "done"
    /\ UNCHANGED <<X_train, X_test, medians, upper_bounds_>>
    /\ UNCHANGED <<nbVars, metaVars, bsVars>>

TrNext ==
    \/ ImputerFit
    \/ ImputerTransformTrain
    \/ ClipFit
    \/ ClipTransformTrain
    \/ ImputerTransformTest
    \/ ClipTransformTest

SpecTransform == TrInit /\ [][TrNext]_vars

\* Order statistics stated without sorting: the k-th smallest of the values
\* v[i], i in I, is the value with fewer than k values below it and at least
\* k values not above it
KthSmallest(v, I, k) ==
    CHOOSE x \in {v[i] : i \in I} :
        /\ Cardinality({i \in I : FLt(v[i], x)}) < k
        /\ k <= Cardinality({i \in I : FLe(v[i], x)})

\* the median of the values v[i], i in I (0 when there are none)
MiddleOf(v, I) ==
    LET n == Cardinality(I)
    IN  IF n = 0 THEN Zero
        ELSE IF n % 2 = 1 THEN KthSmallest(v, I, (n + 1) \div 2)
        ELSE FDiv(FAdd(KthSmallest(v, I, n \div 2), KthSmallest(v, I, n \div 2 + 1)), Q(2))

NonNegativeRows(v) == {i \in 1..Len(v) : FLe(Zero, v[i])}

AfterImputerTransform == tr_pc \in {"clip.fit", "predict.clip"}

\* C4 as claimed: transform replaces every negative value by the median of
\* the whole fitted column and leaves the other values as they were.
C4_ColumnMedian ==
    AfterImputerTransform =>
        \A c \in Range(arg.columns) : \A i \in 1..Height(arg) :
            Xt.col[c][i] =
                IF FLt(arg.col[c][i], Zero)
                THEN MiddleOf(X_train.col[c], 1..Height(X_train))
                ELSE arg.col[c][i]

\* C4, amended: transform replaces every negative value of a column by the
\* median of the non-negative values that column had at fit (0 if it had
\* none) and leaves every non-negative value as it was.
C4_NonNegativeMedian ==
    AfterImputerTransform =>
        \A c \in Range(arg.columns) : \A i \in 1..Height(arg) :
            Xt.col[c][i] =
                IF FLt(arg.col[c][i], Zero)
                THEN MiddleOf(X_train.col[c], NonNegativeRows(X_train.col[c]))
                ELSE arg.col[c][i]

\* a negative value has been replaced by a median that is not the median of
\* the whole column, next to a non-negative value
C4_Witness ==
    /\ AfterImputerTransform
    /\ \E c \in Range(arg.columns) : \E i, j \in 1..Height(arg) :
          /\ FLt(arg.col[c][i], Zero)
          /\ FLe(Zero, arg.col[c][j])
          /\ Xt.col[c][i] # MiddleOf(X_train.col[c], 1..Height(X_train))
          /\ FLt(Zero, Xt.col[c][i])

\* the quartiles of a column: the values of rank round((n - 1) / 4) and
\* round(3 (n - 1) / 4), counted from 0
Quartile1(v) == KthSmallest(v, 1..Len(v), (Len(v) + 1) \div 4 + 1)

Quartile3(v) == KthSmallest(v, 1..Len(v), (3 * Len(v) - 1) \div 4 + 1)

InterQuartileRange(v) == FSub(Quartile3(v), Quartile1(v))

AfterFitTransformClip == tr_pc = "fitted"

ImputedWithStatsOf(T, M) ==
    [c \in Range(M.columns) |->
        [i \in 1..Height(M) |->
            IF FLt(M.col[c][i], Zero)
            THEN MiddleOf(T.col[c], NonNegativeRows(T.col[c]))
            ELSE M.col[c][i]]]

ClippedWithStatsOf(T, M) ==
    LET t == ImputedWithStatsOf(T, T)
        m == ImputedWithStatsOf(T, M)
    IN  [p \in 1..Len(M.columns) |->
            LET c == M.columns[p]
                cap == FAdd(Quartile3(t[c]), FMul(Q(3), InterQuartileRange(t[c])))
            IN  [i \in 1..Height(M) |-> IF FLt(cap, m[c][i]) THEN cap ELSE m[c][i]]]

-----------------------------------------------------------------------------
(* bootstrap_CI_regression(y_test, y_pred, n_bs, alpha) *)

MaxLen == 2

MaxBs == 2

\* the significance levels tried: the default 0.05 and the largest, 1
Alphas == {<<1, 20>>, <<1, 1>>}

\* the values a true and a predicted target may take
TestValues == {Q(0), Q(2)}

PredValues == {Q(0), Q(1)}

SquaredErrors(yt, yp) ==
    [i \in 1..Len(yt) |-> FMul(FSub(yt[i], yp[i]), FSub(yt[i], yp[i]))]

\* sklearn.metrics.mean_squared_error
mean_squared_error(yt, yp) == FDiv(SeqSum(SquaredErrors(yt, yp)), Q(Len(yt)))

\* sklearn.metrics.r2_score: NaN with fewer than two samples; with a constant
\* y_true, 1 for a perfect prediction and 0 otherwise
r2_score(yt, yp) ==
    LET n == Len(yt)
        mean == FDiv(SeqSum(yt), Q(n))
        numerator == SeqSum(SquaredErrors(yt, yp))
        denominator == SeqSum([i \in 1..n |-> FMul(FSub(yt[i], mean), FSub(yt[i], mean))])
    IN  IF n < 2 THEN NaN
        ELSE IF denominator # Zero THEN FSub(Q(1), FDiv(numerator, denominator))
        ELSE IF numerator = Zero THEN Q(1)
        ELSE Zero

\* np.percentile(a, q), linear interpolation between the two closest ranks;
\* NaN when a holds a NaN
Percentile(a, q) ==
    IF \E i \in 1..Len(a) : IsNaN(a[i]) THEN NaN
    ELSE LET t == Sorted(a)
             pos == FDiv(FMul(q, Q(Len(a) - 1)), Q(100))
             lo == pos[1] \div pos[2]
             g == FSub(pos, Q(lo))
         IN  IF lo + 1 >= Len(a) THEN t[Len(a)]
             ELSE FAdd(t[lo + 1], FMul(g, FSub(t[lo + 2], t[lo + 1])))

\* faulty variant: the two percentiles are exchanged
ConfidenceInterval_swapped(stat, bs_stat, a) ==
    LET spread == [i \in 1..Len(bs_stat) |-> FSub(bs_stat[i], stat)]
        half == FDiv(a, Q(2))
    IN  <<FSub(stat, Percentile(spread, FMul(Q(100), half))),
          FSub(stat, Percentile(spread, FMul(Q(100), FSub(Q(1), half))))>>

\* (ci_lower, ci_upper) of one statistic from its resampled values
ConfidenceInterval(stat, bs_stat, a) ==
    LET spread == [i \in 1..Len(bs_stat) |-> FSub(bs_stat[i], stat)]
        half == FDiv(a, Q(2))
    IN  <<FSub(stat, Percentile(spread, FMul(Q(100), FSub(Q(1), half)))),
          FSub(stat, Percentile(spread, FMul(Q(100), half)))>>

BsStart ==
    /\ bs_pc = "start"
    /\ \E n \in 1..MaxLen :
          /\ y_test \in [1..n -> TestValues]
          /\ y_pred \in [1..n -> PredValues]
    /\ n_bs \in 1..MaxBs
    /\ alpha \in Alphas
    /\ mse = Zero
    /\ r2 = Zero
    /\ bs_mse = <<>>
    /\ bs_r2 = <<>>
    /\ mse_ci = <<Zero, Zero>>
    /\ r2_ci = <<Zero, Zero>>

BsInit == BsStart /\ NbIdle /\ MetaIdle /\ TrIdle

\* the statistics of the whole test set
BsScore ==
    /\ bs_pc = "start"
    /\ mse' = mean_squared_error(y_test, y_pred)
    /\ r2' = r2_score(y_test, y_pred)
    /\ bs_pc' = "loop"
    /\ UNCHANGED <<y_test, y_pred, n_bs, alpha, bs_mse, bs_r2, mse_ci, r2_ci>>
    /\ UNCHANGED <<nbVars, metaVars, trVars>>

\* one bootstrap iteration: rand_idx is any choice of len(y_test) indices
\* with replacement
BsIterate ==
    /\ bs_pc = "loop"
    /\ Len(bs_mse) < n_bs
    /\ \E rand_idx \in [1..Len(y_test) -> 1..Len(y_test)] :
          LET yt == [i \in 1..Len(y_test) |-> y_test[rand_idx[i]]]
              yp == [i \in 1..Len(y_test) |-> y_pred[rand_idx[i]]]
          IN  /\ bs_mse' = Append(bs_mse, mean_squared_error(yt, yp))
              /\ bs_r2' = Append(bs_r2, r2_score(yt, yp))
    /\ UNCHANGED <<bs_pc, y_test, y_pred, n_bs, alpha, mse, r2, mse_ci, r2_ci>>
    /\ UNCHANGED <<nbVars, metaVars, trVars>>

\* the percentiles of the spreads and the return
BsReturn ==
    /\ bs_pc = "loop"
    /\ Len(bs_mse) = n_bs
    /\ mse_ci' = ConfidenceInterval(mse, bs_mse, alpha)
    /\ r2_ci' = ConfidenceInterval(r2, bs_r2, alpha)
    /\ bs_pc' = "done"
    /\ UNCHANGED <<y_test, y_pred, n_bs, alpha, mse, r2, bs_mse, bs_r2>>
    /\ UNCHANGED <<nbVars, metaVars, trVars>>

BsNext ==
    \/ BsScore
    \/ BsIterate
    \/ BsReturn

SpecBootstrap == BsInit /\ [][BsNext]_vars

\* C8 as claimed: for every y_test, y_pred, n_bs >= 1 and 0 < alpha <= 1 and
\* every resampling, lower <= upper in both returned pairs.
C8_LowerLeUpper ==
    bs_pc = "done" =>
        /\ FLe(mse_ci[1], mse_ci[2])
        /\ FLe(r2_ci[1], r2_ci[2])

\* C8, amended: lower <= upper in the MSE pair always, and in the R squared
\* pair whenever y_test has at least two samples; with a single sample both
\* R squared bounds are NaN.
C8_LowerLeUpperTwoSamples ==
    bs_pc = "done" =>
        /\ FLe(mse_ci[1], mse_ci[2])
        /\ Len(y_test) >= 2 => FLe(r2_ci[1], r2_ci[2])
        /\ Len(y_test) < 2 => IsNaN(r2_ci[1]) /\ IsNaN(r2_ci[2])

\* a return with resamples that differ: both intervals have lower < upper
C8_Witness ==
    /\ bs_pc = "done"
    /\ Len(y_test) >= 2
    /\ FLt(mse_ci[1], mse_ci[2])
    /\ FLt(r2_ci[1], r2_ci[2])
    /\ alpha = <<1, 20>>

-----------------------------------------------------------------------------
(* The notebook, cell by cell.  The two csv files and the two metadata      *)
(* files are not part of the repository: the model reads small files with   *)
(* the columns the cells name and one or two columns of each other kind.    *)
(* A frame is [kind, columns, col] as above.                                *)

NbRows == 2

TOTAL_HOUSEHOLDS_COL == "HSBASHHD"

INSURANCE_COL == "HSEP001S"

PORTION_RET_INSUR_COL == "portion_retirement_insurance"

INCOME_COL == "HSHNIAGG"

\* invalid_row_threshold = 0.05
invalid_row_threshold == <<1, 20>>

\* HouseholdSpend 2024 - Metadata.csv: total expenditure with two parts
HsMetadata ==
    << [Variable |-> "HSBASHHD", Level |-> 0],
       [Variable |-> "HSHNIAGG", Level |-> 0],
       [Variable |-> "HSAGDISPIN", Level |-> 0],
       [Variable |-> "HSAGDISCIN", Level |-> 0],
       [Variable |-> "HSTT001", Level |-> 0],
       [Variable |-> "HSFD001", Level |-> 1],
       [Variable |-> "HSEP001S", Level |-> 1] >>

\* DemoStats 2024 - Metadata.csv: total population, one age group, median age
DsMetadata ==
    << [Variable |-> "ECYPTAPOP", Level |-> 0],
       [Variable |-> "ECYPTA_0_4", Level |-> 1],
       [Variable |-> "ECYPTAMED", Level |-> 1] >>

\* the values a cell of the csv files may hold
HouseholdValues == {Q(0), Q(2)}

\* insurance/retirement total and income total of one row
TargetInputs == {<<Q(3), Q(4)>>, <<Q(0), Q(0)>>, <<Q(3), Q(0)>>}

SpendValues == {Q(-1), Q(0), Q(5)}

DemoValues == {Q(0), Q(7)}

Frame(columns, col) == [kind |-> "polars", columns |-> columns, col |-> col]

\* DataFrame.drop / drop_in_place: the frame without the columns in names
DropColumns(df, names) ==
    Frame(SelectIdx(df.columns, LAMBDA p : df.columns[p] \notin names),
          [c \in Range(df.columns) \ names |-> df.col[c]])

\* with_columns(expr.alias(name)): a column is added or replaced
WithColumn(df, name, values) ==
    Frame(IF name \in Range(df.columns) THEN df.columns ELSE Append(df.columns, name),
          [c \in Range(df.columns) \cup {name} |-> IF c = name THEN values ELSE df.col[c]])

\* faulty variant: no NaN is replaced
fill_nan_skipped(df, value) == df

\* DataFrame.fill_nan(value)
fill_nan(df, value) ==
    Frame(df.columns,
          [c \in Range(df.columns) |->
              [i \in 1..Len(df.col[c]) |-> IF IsNaN(df.col[c][i]) THEN value ELSE df.col[c][i]]])

\* the asserts of the loading cell: no NaN in a frame
NoNaNs(df) == \A c \in Range(df.columns) : \A i \in 1..Len(df.col[c]) : ~IsNaN(df.col[c][i])

\* the feature engineering cell: per-household spending, then the target
FeatureEngineering(frame) ==
    LET households == frame.col[TOTAL_HOUSEHOLDS_COL]
        rest == DropColumns(frame, {TOTAL_HOUSEHOLDS_COL})
        per_household ==
            Frame(rest.columns,
                  [c \in Range(rest.columns) |->
                      [i \in 1..Len(rest.col[c]) |-> FDiv(rest.col[c][i], households[i])]])
        with_target ==
            WithColumn(per_household, PORTION_RET_INSUR_COL,
                       [i \in 1..Height(per_household) |->
                           FDiv(per_household.col[INSURANCE_COL][i],
                                per_household.col[INCOME_COL][i])])
    IN  fill_nan(with_target, Zero)

\* the loop that drops the listed columns a frame has
DropListed(df, columns_to_drop) == DropColumns(df, columns_to_drop \cap Range(df.columns))

\* pl.concat([a, b], how="horizontal")
ConcatHorizontal(a, b) ==
    Frame(a.columns \o b.columns,
          [c \in Range(a.columns) \cup Range(b.columns) |->
              IF c \in Range(a.columns) THEN a.col[c] ELSE b.col[c]])

CountIf(S, test(_)) == Cardinality({e \in S : test(e)})

\* DataFrame.filter: the rows of df at the kept positions idxs, in order
TakeRows(df, idxs) ==
    Frame(df.columns,
          [c \in Range(df.columns) |-> [k \in 1..Len(idxs) |-> df.col[c][idxs[k]]]])

\* the first row filter keeps row i: not more than 5% of its values are < 0
FewNegatives(df, i) ==
    LET negatives == CountIf(Range(df.columns), LAMBDA c : FLt(df.col[c][i], Zero))
        not_null == Len(df.columns)
    IN  ~FLt(invalid_row_threshold, FDiv(Q(negatives), Q(not_null)))

\* the second row filter keeps row i: not all of its values are 0
NotAllZero(df, i) == ~(\A c \in Range(df.columns) : df.col[c][i] = Zero)

\* the cleaning cell.  Both row filters look at one row at a time, so the
\* rows left by the second after the first are the rows that pass both.
\* They are assigned to data; the two data.drop(..) calls return new frames
\* that the cell does not keep.
CleaningCell(frame, spending) ==
    LET rows == SelectIdx([i \in 1..Height(frame) |-> i],
                          LAMBDA i : FewNegatives(frame, i) /\ NotAllZero(frame, i))
        filtered == TakeRows(frame, rows)
        numeric_cols == Range(filtered.columns)
        cols_to_drop ==
            {c \in numeric_cols :
                FLt(invalid_row_threshold,
                    FDiv(Q(CountIf(1..Height(filtered), LAMBDA i : FLt(filtered.col[c][i], Zero))),
                         Q(Height(spending))))}
        zero_cols ==
            {c \in Range(spending.columns) : \A i \in 1..Height(filtered) : filtered.col[c][i] = Zero}
    IN  [data |-> filtered,
         rows |-> rows,
         not_kept |-> <<DropColumns(filtered, cols_to_drop), DropColumns(filtered, zero_cols)>>]

\* faulty variant: the scaler runs before the two custom steps
preprocess_scaler_first == <<"standardize", "impute_negatives", "clip_outliers">>

\* the steps of the preprocess Pipeline, in the order it runs them
preprocess == <<"impute_negatives", "clip_outliers", "standardize">>

\* Pipeline.fit_transform: each step is fitted on and applied to the output
\* of the step before it
PipelineFitTransform(steps, matrix) == [matrix EXCEPT !.stages = matrix.stages \o steps]

NbStart ==
    /\ pc = "load"
    /\ \E hh \in [1..NbRows -> HouseholdValues], pair \in [1..NbRows -> TargetInputs],
          spend \in [1..NbRows -> SpendValues] :
          hs_csv = Frame(<<"CODE", "GEO", "HSBASHHD", "HSHNIAGG", "HSAGDISPIN", "HSAGDISCIN",
                           "HSEP001S", "HSTT001", "HSFD001">>,
                         [c \in {"CODE", "GEO", "HSBASHHD", "HSHNIAGG", "HSAGDISPIN",
                                 "HSAGDISCIN", "HSEP001S", "HSTT001", "HSFD001"} |->
                            CASE c = "CODE" -> [i \in 1..NbRows |-> Q(i)]
                              [] c = "GEO" -> [i \in 1..NbRows |-> Q(1)]
                              [] c = "HSBASHHD" -> hh
                              [] c = "HSEP001S" -> [i \in 1..NbRows |-> pair[i][1]]
                              [] c \in {"HSTT001", "HSFD001"} -> spend
                              [] OTHER -> [i \in 1..NbRows |-> pair[i][2]]])
    /\ \E demo \in [1..NbRows -> DemoValues] :
          ds_csv = Frame(<<"CODE", "GEO", "ECYPTAPOP", "ECYPTA_0_4", "ECYPTAMED">>,
                         [c \in {"CODE", "GEO", "ECYPTAPOP", "ECYPTA_0_4", "ECYPTAMED"} |->
                            CASE c = "CODE" -> [i \in 1..NbRows |-> Q(i)]
                              [] c = "GEO" -> [i \in 1..NbRows |-> Q(1)]
                              [] c = "ECYPTAMED" -> [i \in 1..NbRows |-> Q(40)]
                              [] OTHER -> demo])
    /\ hs = NoFrame
    /\ ds = NoFrame
    /\ total_households = <<>>
    /\ data = NoFrame
    /\ data_rows = <<>>
    /\ X = NoFrame
    /\ y = <<>>
    /\ X_proc_kmeans_sampled = <<>>
    /\ fits = <<>>
    /\ log = <<>>

Init == NbStart /\ MetaIdle /\ TrIdle /\ BsIdle

\* pl.read_csv of both files and the asserts on NaN and null values
Load ==
    /\ pc = "load"
    /\ NoNaNs(hs_csv) /\ NoNaNs(ds_csv)
    /\ hs' = hs_csv
    /\ ds' = ds_csv
    /\ log' = Append(log, "load")
    /\ pc' = "drop_ids"
    /\ UNCHANGED <<hs_csv, ds_csv, total_households, data, data_rows, X, y,
                   X_proc_kmeans_sampled, fits>>
    /\ UNCHANGED <<metaVars, trVars, bsVars>>

\* drop_in_place of CODE and GEO
DropIds ==
    /\ pc = "drop_ids"
    /\ hs' = DropColumns(hs, {"CODE", "GEO"})
    /\ ds' = DropColumns(ds, {"GEO", "CODE"})
    /\ log' = Append(log, "drop_ids")
    /\ pc' = "feature_engineer"
    /\ UNCHANGED <<hs_csv, ds_csv, total_households, data, data_rows, X, y,
                   X_proc_kmeans_sampled, fits>>
    /\ UNCHANGED <<metaVars, trVars, bsVars>>

FeatureEngineer ==
    /\ pc = "feature_engineer"
    /\ total_households' = hs.col[TOTAL_HOUSEHOLDS_COL]
    /\ hs' = FeatureEngineering(hs)
    /\ log' = Append(log, "feature_engineer")
    /\ pc' = "drop_target_inputs"
    /\ UNCHANGED <<hs_csv, ds_csv, ds, data, data_rows, X, y, X_proc_kmeans_sampled, fits>>
    /\ UNCHANGED <<metaVars, trVars, bsVars>>

\* the columns used to calculate the target or highly correlated with it
DropTargetInputs ==
    /\ pc = "drop_target_inputs"
    /\ hs' = DropColumns(hs, {INCOME_COL, "HSAGDISPIN", "HSAGDISCIN", INSURANCE_COL})
    /\ log' = Append(log, "drop_target_inputs")
    /\ pc' = "drop_redundant"
    /\ UNCHANGED <<hs_csv, ds_csv, ds, total_households, data, data_rows, X, y,
                   X_proc_kmeans_sampled, fits>>
    /\ UNCHANGED <<metaVars, trVars, bsVars>>

\* get_columns_to_drop on both metadata files and the two dropping loops
DropRedundant ==
    /\ pc = "drop_redundant"
    /\ LET ds_columns_to_drop == get_columns_to_drop(DsMetadata)
           hs_columns_to_drop == get_columns_to_drop(HsMetadata)
       IN  /\ hs' = DropListed(hs, hs_columns_to_drop)
           /\ ds' = DropListed(ds, ds_columns_to_drop)
    /\ log' = Append(log, "drop_redundant")
    /\ pc' = "concat"
    /\ UNCHANGED <<hs_csv, ds_csv, total_households, data, data_rows, X, y,
                   X_proc_kmeans_sampled, fits>>
    /\ UNCHANGED <<metaVars, trVars, bsVars>>

Concat ==
    /\ pc = "concat"
    /\ data' = ConcatHorizontal(hs, ds)
    /\ data_rows' = [i \in 1..Height(hs) |-> i]
    /\ log' = Append(log, "concat")
    /\ pc' = "clean"
    /\ UNCHANGED <<hs_csv, ds_csv, hs, ds, total_households, X, y, X_proc_kmeans_sampled, fits>>
    /\ UNCHANGED <<metaVars, trVars, bsVars>>

Clean ==
    /\ pc = "clean"
    /\ \E cell \in {CleaningCell(data, hs)} :
          /\ data' = cell.data
          /\ data_rows' = [i \in 1..Len(cell.rows) |-> data_rows[cell.rows[i]]]
    /\ log' = Append(log, "clean")
    /\ pc' = "split"
    /\ UNCHANGED <<hs_csv, ds_csv, hs, ds, total_households, X, y, X_proc_kmeans_sampled, fits>>
    /\ UNCHANGED <<metaVars, trVars, bsVars>>

\* y and X are taken from data; the preprocess pipeline is built
Split ==
    /\ pc = "split"
    /\ y' = data.col[PORTION_RET_INSUR_COL]
    /\ X' = DropColumns(data, {PORTION_RET_INSUR_COL})
    /\ log' = Append(log, "split")
    /\ pc' = "sample"
    /\ UNCHANGED <<hs_csv, ds_csv, hs, ds, total_households, data, data_rows,
                   X_proc_kmeans_sampled, fits>>
    /\ UNCHANGED <<metaVars, trVars, bsVars>>

\* X.sample(fraction=0.1, seed=SEED); from here on a matrix is followed by
\* where it comes from and the steps it went through, not by its values
SampleKMeans ==
    /\ pc = "sample"
    /\ X_proc_kmeans_sampled' = [of |-> "X.sample", stages |-> <<>>]
    /\ log' = Append(log, "sample")
    /\ pc' = "preprocess"
    /\ UNCHANGED <<hs_csv, ds_csv, hs, ds, total_households, data, data_rows, X, y, fits>>
    /\ UNCHANGED <<metaVars, trVars, bsVars>>

\* preprocess.fit_transform(X_proc_kmeans_sampled)
PreprocessKMeans ==
    /\ pc = "preprocess"
    /\ X_proc_kmeans_sampled' = PipelineFitTransform(preprocess, X_proc_kmeans_sampled)
    /\ log' = log \o preprocess
    /\ pc' = "elbow"
    /\ UNCHANGED <<hs_csv, ds_csv, hs, ds, total_households, data, data_rows, X, y, fits>>
    /\ UNCHANGED <<metaVars, trVars, bsVars>>

\* KElbowVisualizer.fit and final_kmeans.fit_predict
Elbow ==
    /\ pc = "elbow"
    /\ fits' = Append(fits, [estimator |-> "KMeans", on |-> X_proc_kmeans_sampled])
    /\ log' = Append(log, "cluster")
    /\ pc' = "silhouette"
    /\ UNCHANGED <<hs_csv, ds_csv, hs, ds, total_households, data, data_rows, X, y,
                   X_proc_kmeans_sampled>>
    /\ UNCHANGED <<metaVars, trVars, bsVars>>

\* plot_silhouettes and sil_models[0].fit_predict
Silhouette ==
    /\ pc = "silhouette"
    /\ fits' = Append(fits, [estimator |-> "KMeans", on |-> X_proc_kmeans_sampled])
    /\ log' = Append(log, "cluster")
    /\ pc' = "regress"
    /\ UNCHANGED <<hs_csv, ds_csv, hs, ds, total_households, data, data_rows, X, y,
                   X_proc_kmeans_sampled>>
    /\ UNCHANGED <<metaVars, trVars, bsVars>>

\* full_pipeline_lin = preprocess, then ElasticNet, fitted by the grid
\* search on the training split and applied to the test split
Regress ==
    /\ pc = "regress"
    /\ LET X_train_lin == [of |-> "train_test_split(X.sample)", stages |-> <<>>]
       IN  fits' = Append(fits, [estimator |-> "ElasticNet",
                                 on |-> PipelineFitTransform(preprocess, X_train_lin)])
    /\ log' = (log \o preprocess) \o <<"regress">>
    /\ pc' = "bootstrap"
    /\ UNCHANGED <<hs_csv, ds_csv, hs, ds, total_households, data, data_rows, X, y,
                   X_proc_kmeans_sampled>>
    /\ UNCHANGED <<metaVars, trVars, bsVars>>

\* bootstrap_CI_regression on the test split and the prints
BootstrapCI ==
    /\ pc = "bootstrap"
    /\ log' = Append(log, "bootstrap_ci")
    /\ pc' = "report"
    /\ UNCHANGED <<hs_csv, ds_csv, hs, ds, total_households, data, data_rows, X, y,
                   X_proc_kmeans_sampled, fits>>
    /\ UNCHANGED <<metaVars, trVars, bsVars>>

\* the 5 largest coefficients
Report ==
    /\ pc = "report"
    /\ log' = Append(log, "report")
    /\ pc' = "done"
    /\ UNCHANGED <<hs_csv, ds_csv, hs, ds, total_households, data, data_rows, X, y,
                   X_proc_kmeans_sampled, fits>>
    /\ UNCHANGED <<metaVars, trVars, bsVars>>

Next ==
    \/ Load
    \/ DropIds
    \/ FeatureEngineer
    \/ DropTargetInputs
    \/ DropRedundant
    \/ Concat
    \/ Clean
    \/ Split
    \/ SampleKMeans
    \/ PreprocessKMeans
    \/ Elbow
    \/ Silhouette
    \/ Regress
    \/ BootstrapCI
    \/ Report

Spec == Init /\ [][Next]_vars

-----------------------------------------------------------------------------
(* Claims about the notebook's cells.                                       *)

\* the cleaning cell has run
Cleaned == "clean" \in Range(log)

\* every value of column c of data is 0
AllZeroColumn(c) == \A k \in 1..Height(data) : data.col[c][k] = Zero

\* more than 5% of the values of column c of data are negative
MostlyNegativeColumn(c) ==
    Cardinality({k \in 1..Height(data) : FLt(data.col[c][k], Zero)}) * 20 > Height(data)

\* C1: after the cleaning cell has run, data (with at least one row) has no
\* column whose values are all zero and no column in which more than 5% of
\* the values are negative.
C1_NoZeroOrNegativeColumn ==
    (Cleaned /\ Height(data) > 0) =>
        \A c \in Range(data.columns) : ~AllZeroColumn(c) /\ ~MostlyNegativeColumn(c)

\* C1, the failing run: every row has households and survives the cleaning
\* cell, HSFD001 is 0 in every row, and the column is still in data
C1_Witness ==
    /\ Cleaned
    /\ Height(data) = NbRows
    /\ \A i \in 1..NbRows : hs_csv.col[TOTAL_HOUSEHOLDS_COL][i] = Q(2)
    /\ "HSFD001" \in Range(data.columns)
    /\ AllZeroColumn("HSFD001")

\* total households of row k of data, as read from the csv file
HouseholdsOf(k) == hs_csv.col[TOTAL_HOUSEHOLDS_COL][data_rows[k]]

\* more than 5% of the values of row k of data are negative
MostlyNegativeRow(k) ==
    Cardinality({c \in Range(data.columns) : FLt(data.col[c][k], Zero)}) * 20
        > Len(data.columns)

\* C2: after the cleaning cell has run, data has no row whose total
\* households is 0 and no row in which more than 5% of the values are
\* negative.
C2_NoEmptyOrNegativeRow ==
    Cleaned =>
        \A k \in 1..Height(data) : HouseholdsOf(k) # Zero /\ ~MostlyNegativeRow(k)

\* C2, the failing run: a row without households, whose NaN spending was
\* replaced by 0 and whose age group is populated, is still in data
C2_Witness ==
    /\ Cleaned
    /\ \E k \in 1..Height(data) :
          /\ HouseholdsOf(k) = Zero
          /\ hs_csv.col["HSFD001"][data_rows[k]] = Zero
          /\ data.col["HSFD001"][k] = Zero
          /\ data.col["ECYPTA_0_4"][k] = Q(7)

\* the target has been built
TargetBuilt == PORTION_RET_INSUR_COL \in Range(hs.columns)

\* C6: for every row with nonzero total households and nonzero income the
\* target is the row's original HSEP001S divided by its original HSHNIAGG;
\* for every row where the ratio is NaN (0/0, or no households) it is 0.
C6_TargetIsInsuranceOverIncome ==
    TargetBuilt =>
        \A i \in 1..NbRows :
            LET households == hs_csv.col[TOTAL_HOUSEHOLDS_COL][i]
                insurance == hs_csv.col[INSURANCE_COL][i]
                income == hs_csv.col[INCOME_COL][i]
                target == hs.col[PORTION_RET_INSUR_COL][i]
            IN  /\ (households # Zero /\ income # Zero) =>
                       target = Norm(insurance[1] * income[2], insurance[2] * income[1])
                /\ (households = Zero \/ (insurance = Zero /\ income = Zero)) =>
                       target = Zero

\* C6 witness: the target is built, one row has households and income and
\* a nonzero ratio, another has a NaN ratio
C6_Witness ==
    /\ TargetBuilt
    /\ \E i \in 1..NbRows :
          /\ hs_csv.col[TOTAL_HOUSEHOLDS_COL][i] # Zero
          /\ hs_csv.col[INCOME_COL][i] # Zero
          /\ hs.col[PORTION_RET_INSUR_COL][i] = <<3, 4>>
    /\ \E i \in 1..NbRows :
          /\ hs_csv.col[TOTAL_HOUSEHOLDS_COL][i] # Zero
          /\ hs_csv.col[INSURANCE_COL][i] = Zero
          /\ hs_csv.col[INCOME_COL][i] = Zero

\* the place of a step in the order load, clean, feature-engineer, drop
\* redundant columns, impute, clip, standardize, cluster, regress, report
\* (0: the step is not in that list)
StepRank(step) ==
    CASE step = "load" -> 1
      [] step = "clean" -> 2
      [] step = "feature_engineer" -> 3
      [] step = "drop_redundant" -> 4
      [] step = "impute_negatives" -> 5
      [] step = "clip_outliers" -> 6
      [] step = "standardize" -> 7
      [] step = "cluster" -> 8
      [] step = "regress" -> 9
      [] step = "report" -> 10
      [] OTHER -> 0

\* every estimator was fitted on a matrix that went through imputation,
\* then clipping, then standardization
FittedOnPreprocessed ==
    \A f \in 1..Len(fits) :
        fits[f].on.stages = <<"impute_negatives", "clip_outliers", "standardize">>

\* the columns the target is computed from are in hs until the target is
TargetBeforeDrop ==
    ("load" \in Range(log) /\ ~({INSURANCE_COL, INCOME_COL} \subseteq Range(hs.columns)))
        => TargetBuilt

\* C7: the steps happen in the order load, clean, feature-engineer, drop
\* redundant columns, impute, clip, standardize, cluster, regress, report;
\* no estimator is fitted on data that is not imputed, clipped, standardized;
\* the target's inputs are dropped only after the target is computed.
C7_ListedOrder ==
    /\ \A i, j \in 1..Len(log) :
          (i < j /\ StepRank(log[i]) > 0 /\ StepRank(log[j]) > 0)
              => StepRank(log[i]) <= StepRank(log[j])
    /\ FittedOnPreprocessed
    /\ TargetBeforeDrop

\* the cells of a whole run
WholeRun ==
    << "load", "drop_ids", "feature_engineer", "drop_target_inputs", "drop_redundant",
       "concat", "clean", "split", "sample",
       "impute_negatives", "clip_outliers", "standardize", "cluster", "cluster",
       "impute_negatives", "clip_outliers", "standardize", "regress",
       "bootstrap_ci", "report" >>

\* C7 (as the notebook runs): load, feature-engineer, drop the target's
\* inputs and the redundant columns, then clean; impute, clip, standardize
\* and cluster on the k-means sample; impute, clip, standardize again and
\* regress on the training split; report.  No estimator is fitted on data
\* that is not imputed, clipped, standardized, and the target's inputs are
\* dropped only after the target is computed.
C7_NotebookOrder ==
    /\ Len(log) <= Len(WholeRun)
    /\ log = SubSeq(WholeRun, 1, Len(log))
    /\ FittedOnPreprocessed
    /\ TargetBeforeDrop

\* C7 witness: a whole run, with the three fits
C7_Witness ==
    /\ pc = "done"
    /\ Len(fits) = 3
    /\ fits[3].estimator = "ElasticNet"
    /\ TargetBuilt
    /\ INSURANCE_COL \notin Range(hs.columns)

=============================================================================
